---- MODULE Spec2Model ----
(***************************************************************************)
(* A model of the request pipeline of ts-api-client.                        *)
(*                                                                         *)
(*   src/src/apiClient.ts  class APIClient (default options: headers,      *)
(*                         query, credentials)                             *)
(*   src/src/index.ts      class APIClient (default headers only), the     *)
(*                         module the two test files import                *)
(*   src/src/types.ts      the option and result types                     *)
(*                                                                         *)
(* Representation.                                                         *)
(*   - A JavaScript string is a TLA+ string; `a + b` is a \o b.            *)
(*   - A JavaScript object (a query record, a body, an options object, a   *)
(*     result) whose keys matter only by presence is a TLA+ record whose   *)
(*     DOMAIN is the set of keys that are present with a defined value; a  *)
(*     property that is absent and a property that is `undefined` are the  *)
(*     same thing to every line of the code (`!== undefined`, truthiness,  *)
(*     spread into fetch's init).                                          *)
(*   - A JavaScript object whose key ORDER matters (a query record, a      *)
(*     body) is the sequence of its <<key, value>> pairs in insertion      *)
(*     order; Object.entries and JSON.stringify enumerate it with          *)
(*     OwnEntries.                                                         *)
(*   - A Headers object is the sequence of <<name, value>> pairs that its  *)
(*     iterator yields (lower-cased names, sorted, duplicates combined).   *)
(*   - A promise is a position of the call: "fetching" and "reading" are   *)
(*     the two awaits of #apiCall, "resolved" and "rejected" the settled   *)
(*     promise handed to the caller.                                       *)
(***************************************************************************)
EXTENDS Integers, Sequences, FiniteSets, TLC

VARIABLES
    baseUrl,         \* APIClient.#baseUrl
    defaultOptions,  \* APIClient.#defaultOptions (index.ts: #defaultHeaders, kept under "headers")
    pc,              \* per caller: position of its call of #apiCall
    args,            \* per caller: <<[verb, options]>> of the call in progress, << >> when idle
    request,         \* per caller: the invocations of fetch made by the call, each [url, init]
    fetched,         \* per caller: what the invocations of fetch settled with, Ok(res) or Throw(err)
    jsonCalls,       \* per caller: how many times res.json() was invoked
    read,            \* per caller: what the invocations of res.json() settled with, Ok(data) or Throw(err)
    result           \* per caller: << >> while pending, else <<value>> the promise settled with

vars == <<baseUrl, defaultOptions, pc, args, request, fetched, jsonCalls, read, result>>

instance == <<baseUrl, defaultOptions>>

-----------------------------------------------------------------------------
(* Generic helpers *)

Restrict(f, S) == [k \in S |-> f[k]]

Has(r, k) == k \in DOMAIN r

RECURSIVE Join(_, _)
\* Array.prototype.join(sep) on an array of strings
Join(strs, sep) ==
    IF strs = << >> THEN ""
    ELSE IF Len(strs) = 1 THEN strs[1]
    ELSE strs[1] \o sep \o Join(Tail(strs), sep)

-----------------------------------------------------------------------------
(* JavaScript values and their coercions *)

\* Largest array index the model's object keys are tested against
MaxIndex == 9

Digits == <<"0", "1", "2", "3", "4", "5", "6", "7", "8", "9">>

RECURSIVE NumToStr(_)
\* Number.prototype.toString for a non-negative integer
NumToStr(n) == IF n < 10 THEN Digits[n + 1] ELSE NumToStr(n \div 10) \o Digits[(n % 10) + 1]

\* The outcome of an evaluation that may throw
Ok(v) == [ok |-> TRUE, val |-> v]
Throw(e) == [ok |-> FALSE, err |-> e]

Str(s) == [t |-> "string", v |-> s]
Num(n) == [t |-> "number", v |-> n]
Bool(b) == [t |-> "boolean", v |-> b]
Sym(d) == [t |-> "symbol", v |-> d]

SymbolTypeError == [error |-> "TypeError: Cannot convert a Symbol value to a string"]
CircularTypeError == [error |-> "TypeError: Converting circular structure to JSON"]

\* `${value}` (ToString): a Symbol cannot be converted and throws a TypeError
TemplateString(value) ==
    CASE value.t = "string" -> Ok(value.v)
      [] value.t = "number" -> Ok(NumToStr(value.v))
      [] value.t = "boolean" -> Ok(IF value.v THEN "true" ELSE "false")
      [] value.t = "symbol" -> Throw(SymbolTypeError)

\* An object key is an array index when it is the canonical decimal form of an integer
IsArrayIndex(key) == \E n \in 0..MaxIndex : NumToStr(n) = key

ArrayIndex(key) == CHOOSE n \in 0..MaxIndex : NumToStr(n) = key

RECURSIVE SortByIndex(_)
\* ascending numeric order of entries whose keys are array indices
SortByIndex(entries) ==
    IF entries = << >> THEN << >>
    ELSE LET i == CHOOSE m \in 1..Len(entries) :
                      \A j \in 1..Len(entries) : ArrayIndex(entries[m][1]) <= ArrayIndex(entries[j][1])
             rest == [k \in 1..(Len(entries) - 1) |-> IF k < i THEN entries[k] ELSE entries[k + 1]]
         IN <<entries[i]>> \o SortByIndex(rest)

IsIndexEntry(e) == IsArrayIndex(e[1])

IsNamedEntry(e) == ~IsArrayIndex(e[1])

\* Object.entries(obj): own enumerable string keys in OrdinaryOwnPropertyKeys order,
\* array-index keys ascending first, then the other keys in insertion order
OwnEntries(obj) == SortByIndex(SelectSeq(obj, IsIndexEntry)) \o SelectSeq(obj, IsNamedEntry)


-----------------------------------------------------------------------------
(* Query string: apiClient.ts *)

RECURSIVE MapPairs(_)
\* entries.map(([key, value]) => `${key}=${value}`), stopping at the first value that throws
MapPairs(entries) ==
    IF entries = << >> THEN Ok(<< >>)
    ELSE LET v == TemplateString(Head(entries)[2])
         IN IF ~v.ok THEN v
            ELSE LET rest == MapPairs(Tail(entries))
                 IN IF ~rest.ok THEN rest
                    ELSE Ok(<<Head(entries)[1] \o "=" \o v.val>> \o rest.val)

RECURSIVE MapPairsSwapped(_)
MapPairsSwapped(entries) ==
    IF entries = << >> THEN Ok(<< >>)
    ELSE LET v == TemplateString(Head(entries)[2])
         IN IF ~v.ok THEN v
            ELSE LET rest == MapPairsSwapped(Tail(entries))
                 IN IF ~rest.ok THEN rest
                    ELSE Ok(<<v.val \o "=" \o Head(entries)[1]>> \o rest.val)

\* #createQueryPairs writing `${value}=${key}`
createQueryPairsSwapped(queryRecord) == MapPairsSwapped(OwnEntries(queryRecord))

\* APIClient.#createQueryPairs
createQueryPairs(queryRecord) == MapPairs(OwnEntries(queryRecord))

\* #createQueryString without the test of line 137: the "?" is always written
createQueryStringAlwaysMark(options, defaults) ==
    LET optionQueryPairs1 == IF Has(options, "query") THEN createQueryPairs(options.query)
                             ELSE Ok(<< >>)
        optionQueryPairs2 == IF Has(defaults, "query") THEN createQueryPairs(defaults.query)
                             ELSE optionQueryPairs1
    IN IF ~optionQueryPairs1.ok THEN optionQueryPairs1
       ELSE IF ~optionQueryPairs2.ok THEN optionQueryPairs2
       ELSE Ok("?" \o Join(optionQueryPairs2.val, "&"))

\* APIClient.#createQueryString, of the options of the call and the instance's default options.
\* The pairs of the default query are assigned to optionQueryPairs (line 133), and
\* defaultQueryPairs stays empty.
createQueryString(options, defaults) ==
    LET optionQueryPairs1 == IF Has(options, "query") THEN createQueryPairs(options.query)
                             ELSE Ok(<< >>)
        defaultQueryPairs == << >>
        optionQueryPairs2 == IF Has(defaults, "query") THEN createQueryPairs(defaults.query)
                             ELSE optionQueryPairs1
    IN IF ~optionQueryPairs1.ok THEN optionQueryPairs1
       ELSE IF ~optionQueryPairs2.ok THEN optionQueryPairs2
       ELSE LET queryPairs == optionQueryPairs2.val \o defaultQueryPairs
            IN IF Len(queryPairs) = 0 THEN Ok("")
               ELSE Ok("?" \o Join(queryPairs, "&"))


-----------------------------------------------------------------------------
(* Headers *)

\* The header names of the model, in the (sorted) order a Headers object iterates them
HeaderNames == <<"accept", "content-type", "x-token">>

HeaderRank(name) == CHOOSE i \in 1..Len(HeaderNames) : HeaderNames[i] = name

\* Headers.prototype.append: a repeated name combines the values with ", ",
\* a new name takes its place in the sorted iteration order
HeadersAppend(h, e) ==
    IF \E i \in 1..Len(h) : h[i][1] = e[1]
    THEN [i \in 1..Len(h) |-> IF h[i][1] = e[1] THEN <<e[1], h[i][2] \o ", " \o e[2]>> ELSE h[i]]
    ELSE LET Before(x) == HeaderRank(x[1]) < HeaderRank(e[1])
             After(x) == HeaderRank(x[1]) > HeaderRank(e[1])
         IN SelectSeq(h, Before) \o <<e>> \o SelectSeq(h, After)

RECURSIVE HeadersFill(_, _)
HeadersFill(h, init) ==
    IF init = << >> THEN h ELSE HeadersFill(HeadersAppend(h, Head(init)), Tail(init))

\* new Headers(init) for an array of [name, value] pairs
NewHeaders(init) == HeadersFill(<< >>, init)

\* A comparison that accepts a parameter suffix after the media type
HeadersGetIsLoose(h, name, value) ==
    \E i \in 1..Len(h) : h[i][1] = name /\ h[i][2] \in {value, value \o "; charset=utf-8"}

\* headers.get(name) === value (the lookup ignores the case of name; the model's names are lower case)
HeadersGetIs(h, name, value) == \E i \in 1..Len(h) : h[i][1] = name /\ h[i][2] = value

-----------------------------------------------------------------------------
(* Option merging, body serialization and result classification: apiClient.ts *)

\* { method: verb, ...options } of get, post, put and delete
SpreadOptions(verb, options) ==
    [k \in {"method"} \cup DOMAIN options |-> IF k \in DOMAIN options THEN options[k] ELSE verb]

\* #applyOptions spreading the per-call headers before the default headers
applyOptionsCallFirst(options, defaults) ==
    LET defaultHeadersArray == IF Has(defaults, "headers") THEN defaults.headers ELSE << >>
        optionHeadersArray == IF Has(options, "headers") THEN options.headers ELSE << >>
        headersInit == optionHeadersArray \o defaultHeadersArray
        credentials == IF Has(options, "credentials") THEN options.credentials
                       ELSE IF Has(defaults, "credentials") THEN defaults.credentials
                       ELSE ""
        defined == (IF Has(options, "method") THEN {"method"} ELSE {})
                   \cup (IF Len(headersInit) > 0 THEN {"headers"} ELSE {})
                   \cup (IF credentials # "" THEN {"credentials"} ELSE {})
    IN Restrict([method |-> IF Has(options, "method") THEN options.method ELSE "",
                 headers |-> NewHeaders(headersInit),
                 credentials |-> credentials], defined)

\* #applyOptions letting the default credentials win over the per-call credentials
applyOptionsDefaultWins(options, defaults) ==
    LET defaultHeadersArray == IF Has(defaults, "headers") THEN defaults.headers ELSE << >>
        optionHeadersArray == IF Has(options, "headers") THEN options.headers ELSE << >>
        headersInit == defaultHeadersArray \o optionHeadersArray
        credentials == IF Has(defaults, "credentials") THEN defaults.credentials
                       ELSE IF Has(options, "credentials") THEN options.credentials
                       ELSE ""
        defined == (IF Has(options, "method") THEN {"method"} ELSE {})
                   \cup (IF Len(headersInit) > 0 THEN {"headers"} ELSE {})
                   \cup (IF credentials # "" THEN {"credentials"} ELSE {})
    IN Restrict([method |-> IF Has(options, "method") THEN options.method ELSE "",
                 headers |-> NewHeaders(headersInit),
                 credentials |-> credentials], defined)

\* APIClient.#applyOptions
applyOptions(options, defaults) ==
    LET defaultHeadersArray == IF Has(defaults, "headers") THEN defaults.headers ELSE << >>
        optionHeadersArray == IF Has(options, "headers") THEN options.headers ELSE << >>
        headersInit == defaultHeadersArray \o optionHeadersArray
        credentials == IF Has(options, "credentials") THEN options.credentials
                       ELSE IF Has(defaults, "credentials") THEN defaults.credentials
                       ELSE ""
        defined == (IF Has(options, "method") THEN {"method"} ELSE {})
                   \cup (IF Len(headersInit) > 0 THEN {"headers"} ELSE {})
                   \cup (IF credentials # "" THEN {"credentials"} ELSE {})
    IN Restrict([method |-> IF Has(options, "method") THEN options.method ELSE "",
                 headers |-> NewHeaders(headersInit),
                 credentials |-> credentials], defined)

\* JSON text of a scalar property value
JSONScalar(value) ==
    CASE value.t = "string" -> "\"" \o value.v \o "\""
      [] value.t = "number" -> NumToStr(value.v)
      [] value.t = "boolean" -> IF value.v THEN "true" ELSE "false"

RECURSIVE JSONMembers(_)
JSONMembers(entries) ==
    IF entries = << >> THEN << >>
    ELSE <<"\"" \o Head(entries)[1] \o "\":" \o JSONScalar(Head(entries)[2])>> \o JSONMembers(Tail(entries))

\* JSON.stringify of a plain object; an object that refers to itself throws a TypeError
JSONStringify(obj) ==
    IF \E i \in 1..Len(obj) : obj[i][2].t = "circular" THEN Throw(CircularTypeError)
    ELSE Ok("{" \o Join(JSONMembers(OwnEntries(obj)), ",") \o "}")

\* The second argument of fetch with the body left out: { ...config }
fetchInitNoBody(options, config) ==
    IF ~Has(options, "body") THEN Ok(config)
    ELSE LET body == JSONStringify(options.body)
         IN IF ~body.ok THEN body ELSE Ok(config)

\* The second argument of fetch: { ...config, body: JSON.stringify(options.body) };
\* JSON.stringify(undefined) is undefined
fetchInit(options, config) ==
    IF ~Has(options, "body") THEN Ok(config)
    ELSE LET body == JSONStringify(options.body)
         IN IF ~body.ok THEN body
            ELSE Ok([k \in DOMAIN config \cup {"body"} |-> IF k = "body" THEN body.val ELSE config[k]])

\* `let path = ""; if (options.path) path = options.path` (lines 38-41)
resolvePath(options) == IF Has(options, "path") /\ options.path # "" THEN options.path ELSE ""

\* URL assembly with a "/" written between the base URL and the path
requestUrlSlash(base, path, query) == base \o "/" \o path \o query

\* `${this.#baseUrl}${path}${query}` (line 48)
requestUrl(base, path, query) == base \o path \o query

\* `let data = {} as T`
EmptyData == [json |-> "{}"]

\* The status chain with the names of 401 and 404 exchanged
responseResultSwapped(status, data) ==
    CASE status = 200 -> [code |-> 200, name |-> "ok", data |-> data]
      [] status = 201 -> [code |-> 201, name |-> "created", data |-> data]
      [] status = 400 -> [code |-> 400, name |-> "bad request"]
      [] status = 401 -> [code |-> 401, name |-> "not found"]
      [] status = 404 -> [code |-> 404, name |-> "unauthorized"]
      [] status = 500 -> [code |-> 500, name |-> "server error"]
      [] OTHER -> [code |-> 0, statusCode |-> status, name |-> "unknown"]

\* The status chain with data attached to every classified response
responseResultWithData(status, data) ==
    CASE status = 200 -> [code |-> 200, name |-> "ok", data |-> data]
      [] status = 201 -> [code |-> 201, name |-> "created", data |-> data]
      [] status = 400 -> [code |-> 400, name |-> "bad request", data |-> data]
      [] status = 401 -> [code |-> 401, name |-> "unauthorized", data |-> data]
      [] status = 404 -> [code |-> 404, name |-> "not found", data |-> data]
      [] status = 500 -> [code |-> 500, name |-> "server error", data |-> data]
      [] OTHER -> [code |-> 0, statusCode |-> status, name |-> "unknown"]

\* The status chain with the unknown variant as index.ts builds it (code -1)
responseResultUnknownMinusOne(status, data) ==
    CASE status = 200 -> [code |-> 200, name |-> "ok", data |-> data]
      [] status = 201 -> [code |-> 201, name |-> "created", data |-> data]
      [] status = 400 -> [code |-> 400, name |-> "bad request"]
      [] status = 401 -> [code |-> 401, name |-> "unauthorized"]
      [] status = 404 -> [code |-> 404, name |-> "not found"]
      [] status = 500 -> [code |-> 500, name |-> "server error"]
      [] OTHER -> [code |-> 0 - 1, statusCode |-> status, name |-> "unknown"]

\* The status chain of #apiCall (lines 63-82)
responseResult(status, data) ==
    CASE status = 200 -> [code |-> 200, name |-> "ok", data |-> data]
      [] status = 201 -> [code |-> 201, name |-> "created", data |-> data]
      [] status = 400 -> [code |-> 400, name |-> "bad request"]
      [] status = 401 -> [code |-> 401, name |-> "unauthorized"]
      [] status = 404 -> [code |-> 404, name |-> "not found"]
      [] status = 500 -> [code |-> 500, name |-> "server error"]
      [] OTHER -> [code |-> 0, statusCode |-> status, name |-> "unknown"]

\* The catch clause wrapping what it caught in a new Error
clientErrorWrapped(err) ==
    [code |-> 0 - 1, name |-> "client error", err |-> [error |-> "Error: request failed", cause |-> err]]

\* The catch clause of #apiCall (line 86)
clientError(err) == [code |-> 0 - 1, name |-> "client error", err |-> err]


-----------------------------------------------------------------------------
(* Inputs *)

Callers == {"c1", "c2"}

\* The caller of the sequential specifications
MainCaller == "c1"

Verbs == {"get", "post", "put", "delete"}

BaseUrls == {"/foo", ""}

QEmpty == << >>
QCall == <<<<"bar", Str("baz")>>, <<"pokemon", Str("pikachu")>>>>
QDefault == <<<<"pokemon", Str("pikachu")>>, <<"id", Num(1)>>, <<"isPremium", Bool(FALSE)>>>>
\* { page: 2, 1: "x" }: the key "1", inserted second, is an array index
QIndexed == <<<<"page", Num(2)>>, <<"1", Str("x")>>>>
QSymbol == <<<<"tag", Sym("s")>>>>

CallQueries == {QEmpty, QCall, QIndexed, QSymbol}
DefaultQueries == {QEmpty, QDefault}

HDefault == <<<<"content-type", "application/json">>>>
\* The per-call headers repeat a name of the default headers and add one
HCall == <<<<"content-type", "text/plain">>, <<"x-token", "abc">>>>

BObject == <<<<"bar", Str("baz")>>>>
\* const b = {}; b.self = b
BCircular == <<<<"self", [t |-> "circular", v |-> "self"]>>>>

\* Every way of leaving out fields of the records of S
Optional(S) == UNION {{Restrict(r, D) : D \in SUBSET DOMAIN r} : r \in S}

\* The options a caller may pass to get, post, put and delete
CallOptions ==
    Optional([path : {"/bar"}, query : CallQueries, headers : {HCall},
              credentials : {"omit"}, body : {BObject, BCircular}, method : {"post"}])

\* The defaultOptions a client may be constructed with
DefaultOptions ==
    Optional([query : DefaultQueries, headers : {HDefault}, credentials : {"include"}])

Statuses == {200, 201, 400, 401, 404, 500, 418, 503}

ResponseHeaders ==
    {<< >>, <<<<"content-type", "application/json">>>>,
     <<<<"content-type", "application/json; charset=utf-8">>>>,
     <<<<"content-type", "Application/JSON">>>>}

\* What fetch may resolve with
Responses == [status : Statuses, headers : ResponseHeaders]

\* What fetch may throw or reject with: an Error and a value that is no Error
TransportErrors == {[error |-> "TypeError: Failed to fetch"], [error |-> "timeout"]}

\* What res.json() may resolve with
JsonValues == {[json |-> "{\"bar\":\"baz\"}"], [json |-> "[]"]}

\* What res.json() may reject with
JsonErrors == {[error |-> "SyntaxError: Unexpected token"]}

-----------------------------------------------------------------------------
(* The client of apiClient.ts *)

Idle == [c \in Callers |-> << >>]

Init ==
    /\ baseUrl \in BaseUrls
    /\ defaultOptions \in DefaultOptions
    /\ pc = [c \in Callers |-> "idle"]
    /\ args = Idle
    /\ request = Idle
    /\ fetched = Idle
    /\ jsonCalls = [c \in Callers |-> 0]
    /\ read = Idle
    /\ result = Idle

\* A call that also writes the default options of the instance
CallWriting(c, verb, options, defaults) ==
    /\ pc[c] = "idle"
    /\ args' = [args EXCEPT ![c] = <<[verb |-> verb, options |-> options]>>]
    /\ LET opts == SpreadOptions(verb, options)
           query == createQueryString(opts, defaultOptions)
           init == fetchInit(opts, applyOptions(opts, defaultOptions))
       IN IF ~query.ok
          THEN /\ pc' = [pc EXCEPT ![c] = "rejected"]
               /\ result' = [result EXCEPT ![c] = <<query.err>>]
               /\ UNCHANGED request
          ELSE IF ~init.ok
          THEN /\ pc' = [pc EXCEPT ![c] = "resolved"]
               /\ result' = [result EXCEPT ![c] = <<clientError(init.err)>>]
               /\ UNCHANGED request
          ELSE /\ pc' = [pc EXCEPT ![c] = "fetching"]
               /\ request' = [request EXCEPT ![c] =
                                 Append(@, [url |-> requestUrl(baseUrl, resolvePath(opts), query.val),
                                            init |-> init.val])]
               /\ UNCHANGED result
    /\ defaultOptions' = defaults
    /\ UNCHANGED <<baseUrl, fetched, jsonCalls, read>>

\* The record r with the field k set to v
WithField(r, k, v) == [f \in DOMAIN r \cup {k} |-> IF f = k THEN v ELSE r[f]]

\* The credentials of a call are stored in the default options they are merged with
CallStoresCredentials(c, verb, options) ==
    CallWriting(c, verb, options,
                IF Has(options, "credentials")
                THEN WithField(defaultOptions, "credentials", options.credentials)
                ELSE defaultOptions)

\* The query of a call is stored in the default options it is merged with
CallStoresQuery(c, verb, options) ==
    CallWriting(c, verb, options,
                IF Has(options, "query")
                THEN WithField(defaultOptions, "query", options.query)
                ELSE defaultOptions)

\* get / post / put / delete up to the first await of #apiCall (lines 37-51, 164-205)
Call(c, verb, options) ==
    /\ pc[c] = "idle"
    /\ args' = [args EXCEPT ![c] = <<[verb |-> verb, options |-> options]>>]
    /\ LET opts == SpreadOptions(verb, options)
           path == resolvePath(opts)
           query == createQueryString(opts, defaultOptions)
           config == applyOptions(opts, defaultOptions)
           init == fetchInit(opts, config)
       IN IF ~query.ok
          THEN \* thrown before the try block: the promise of the async method rejects
               /\ pc' = [pc EXCEPT ![c] = "rejected"]
               /\ result' = [result EXCEPT ![c] = <<query.err>>]
               /\ UNCHANGED request
          ELSE IF ~init.ok
          THEN \* thrown while the arguments of fetch are evaluated: caught
               /\ pc' = [pc EXCEPT ![c] = "resolved"]
               /\ result' = [result EXCEPT ![c] = <<clientError(init.err)>>]
               /\ UNCHANGED request
          ELSE /\ pc' = [pc EXCEPT ![c] = "fetching"]
               /\ request' = [request EXCEPT ![c] =
                                 Append(@, [url |-> requestUrl(baseUrl, path, query.val), init |-> init.val])]
               /\ UNCHANGED result
    /\ UNCHANGED <<instance, fetched, jsonCalls, read>>

\* fetch resolves and res.json() is called without being awaited: the result is built
\* from the empty data while the read is still outstanding
FetchResolveNoAwait(c, res) ==
    /\ pc[c] = "fetching"
    /\ fetched' = [fetched EXCEPT ![c] = Append(@, Ok(res))]
    /\ pc' = [pc EXCEPT ![c] = "resolved"]
    /\ result' = [result EXCEPT ![c] = <<responseResult(res.status, EmptyData)>>]
    /\ jsonCalls' = [jsonCalls EXCEPT ![c] =
                        IF HeadersGetIs(res.headers, "content-type", "application/json")
                        THEN @ + 1 ELSE @]
    /\ UNCHANGED <<instance, args, request, read>>

\* `await fetch(...)` resolves with res (lines 48-84)
FetchResolve(c, res) ==
    /\ pc[c] = "fetching"
    /\ fetched' = [fetched EXCEPT ![c] = Append(@, Ok(res))]
    /\ IF HeadersGetIs(res.headers, "content-type", "application/json")
       THEN /\ pc' = [pc EXCEPT ![c] = "reading"]
            /\ jsonCalls' = [jsonCalls EXCEPT ![c] = @ + 1]
            /\ UNCHANGED result
       ELSE /\ pc' = [pc EXCEPT ![c] = "resolved"]
            /\ result' = [result EXCEPT ![c] = <<responseResult(res.status, EmptyData)>>]
            /\ UNCHANGED jsonCalls
    /\ UNCHANGED <<instance, args, request, read>>

\* A catch clause that invokes fetch once more before giving up
FetchRejectRetry(c, err) ==
    /\ pc[c] = "fetching"
    /\ fetched' = [fetched EXCEPT ![c] = Append(@, Throw(err))]
    /\ IF Len(request[c]) < 2
       THEN /\ request' = [request EXCEPT ![c] = Append(@, @[1])]
            /\ UNCHANGED <<pc, result>>
       ELSE /\ pc' = [pc EXCEPT ![c] = "resolved"]
            /\ result' = [result EXCEPT ![c] = <<clientError(err)>>]
            /\ UNCHANGED request
    /\ UNCHANGED <<instance, args, jsonCalls, read>>

\* fetch throws or its promise rejects with err (lines 85-87)
FetchReject(c, err) ==
    /\ pc[c] = "fetching"
    /\ fetched' = [fetched EXCEPT ![c] = Append(@, Throw(err))]
    /\ pc' = [pc EXCEPT ![c] = "resolved"]
    /\ result' = [result EXCEPT ![c] = <<clientError(err)>>]
    /\ UNCHANGED <<instance, args, request, jsonCalls, read>>

\* The response kept in a field of the instance: the status classified is the one of the
\* response another call in flight received
JsonResolveShared(c, data) ==
    /\ pc[c] = "reading"
    /\ read' = [read EXCEPT ![c] = Append(@, Ok(data))]
    /\ pc' = [pc EXCEPT ![c] = "resolved"]
    /\ LET others == {d \in Callers \ {c} : fetched[d] # << >> /\ fetched[d][1].ok}
           last == IF others = {} THEN c ELSE CHOOSE d \in others : TRUE
       IN result' = [result EXCEPT ![c] = <<responseResult(fetched[last][1].val.status, data)>>]
    /\ UNCHANGED <<instance, args, request, fetched, jsonCalls>>

\* `await res.json()` resolves with data (lines 60-84)
JsonResolve(c, data) ==
    /\ pc[c] = "reading"
    /\ read' = [read EXCEPT ![c] = Append(@, Ok(data))]
    /\ pc' = [pc EXCEPT ![c] = "resolved"]
    /\ result' = [result EXCEPT ![c] = <<responseResult(fetched[c][1].val.status, data)>>]
    /\ UNCHANGED <<instance, args, request, fetched, jsonCalls>>

\* A body read guarded by its own try/catch: the status is classified although json() threw
JsonRejectClassified(c, err) ==
    /\ pc[c] = "reading"
    /\ read' = [read EXCEPT ![c] = Append(@, Throw(err))]
    /\ pc' = [pc EXCEPT ![c] = "resolved"]
    /\ result' = [result EXCEPT ![c] = <<responseResult(fetched[c][1].val.status, EmptyData)>>]
    /\ UNCHANGED <<instance, args, request, fetched, jsonCalls>>

\* A body read that failed makes the call start over: the request is sent again
JsonRejectStartsOver(c, err) ==
    /\ pc[c] = "reading"
    /\ pc' = [pc EXCEPT ![c] = "fetching"]
    /\ fetched' = [fetched EXCEPT ![c] = << >>]
    /\ jsonCalls' = [jsonCalls EXCEPT ![c] = 0]
    /\ UNCHANGED <<instance, args, request, read, result>>

\* `await res.json()` rejects with err (lines 60, 85-87)
JsonReject(c, err) ==
    /\ pc[c] = "reading"
    /\ read' = [read EXCEPT ![c] = Append(@, Throw(err))]
    /\ pc' = [pc EXCEPT ![c] = "resolved"]
    /\ result' = [result EXCEPT ![c] = <<clientError(err)>>]
    /\ UNCHANGED <<instance, args, request, fetched, jsonCalls>>

\* The caller takes the settled promise; nothing of the call is kept
Return(c) ==
    /\ pc[c] \in {"resolved", "rejected"}
    /\ pc' = [pc EXCEPT ![c] = "idle"]
    /\ args' = [args EXCEPT ![c] = << >>]
    /\ request' = [request EXCEPT ![c] = << >>]
    /\ fetched' = [fetched EXCEPT ![c] = << >>]
    /\ jsonCalls' = [jsonCalls EXCEPT ![c] = 0]
    /\ read' = [read EXCEPT ![c] = << >>]
    /\ result' = [result EXCEPT ![c] = << >>]
    /\ UNCHANGED instance

\* An action is enabled in one position of the call only
At(c, position) == pc[c] = position

Next ==
    \/ At(MainCaller, "idle") /\ \E verb \in Verbs, options \in CallOptions : Call(MainCaller, verb, options)
    \/ At(MainCaller, "fetching") /\ \E res \in Responses : FetchResolve(MainCaller, res)
    \/ At(MainCaller, "fetching") /\ \E err \in TransportErrors : FetchReject(MainCaller, err)
    \/ At(MainCaller, "reading") /\ \E data \in JsonValues : JsonResolve(MainCaller, data)
    \/ At(MainCaller, "reading") /\ \E err \in JsonErrors : JsonReject(MainCaller, err)
    \/ Return(MainCaller)

Spec == Init /\ [][Next]_vars


-----------------------------------------------------------------------------
(* The client of index.ts: APIClient(baseUrl, defaultHeaders) *)

\* The query string of index.ts #apiCall (lines 40-46): any query object, the empty one
\* included, is truthy
indexQueryString(options) ==
    IF Has(options, "query")
    THEN LET pairs == MapPairs(OwnEntries(options.query))
         IN IF ~pairs.ok THEN pairs ELSE Ok("?" \o Join(pairs.val, "&"))
    ELSE Ok("")

\* index.ts APIClient.#createHeaders, with the method stamped by #apiCall (lines 52-53)
createHeaders(options, defaults) ==
    LET defaultHeadersArray == IF Has(defaults, "headers") THEN defaults.headers ELSE << >>
        optionHeadersArray == IF Has(options, "headers") THEN options.headers ELSE << >>
        headersInit == defaultHeadersArray \o optionHeadersArray
        defined == (IF Has(options, "method") THEN {"method"} ELSE {})
                   \cup (IF Len(headersInit) > 0 THEN {"headers"} ELSE {})
    IN Restrict([method |-> IF Has(options, "method") THEN options.method ELSE "",
                 headers |-> NewHeaders(headersInit)], defined)

\* The status chain of index.ts #apiCall (lines 67-86)
indexResponseResult(status, data) ==
    CASE status = 200 -> [code |-> 200, name |-> "ok", data |-> data]
      [] status = 201 -> [code |-> 201, name |-> "created", data |-> data]
      [] status = 400 -> [code |-> 400, name |-> "bad request"]
      [] status = 401 -> [code |-> 401, name |-> "unauthorized"]
      [] status = 404 -> [code |-> 404, name |-> "not found"]
      [] status = 500 -> [code |-> 500, name |-> "server error"]
      [] OTHER -> [code |-> 0 - 1, statusCode |-> status, name |-> "unknown"]

\* The catch clause of index.ts #apiCall (line 90)
indexClientError(err) == [name |-> "client error", err |-> err]

IndexDefaultOptions == Optional([headers : {HDefault}])

InitIndex ==
    /\ baseUrl \in BaseUrls
    /\ defaultOptions \in IndexDefaultOptions
    /\ pc = [c \in Callers |-> "idle"]
    /\ args = Idle
    /\ request = Idle
    /\ fetched = Idle
    /\ jsonCalls = [c \in Callers |-> 0]
    /\ read = Idle
    /\ result = Idle

\* index.ts get / post / put / delete up to the first await of #apiCall (lines 34-55, 118-163)
IndexCall(c, verb, options) ==
    /\ pc[c] = "idle"
    /\ args' = [args EXCEPT ![c] = <<[verb |-> verb, options |-> options]>>]
    /\ LET opts == SpreadOptions(verb, options)
           path == resolvePath(opts)
           query == indexQueryString(opts)
           config == createHeaders(opts, defaultOptions)
           init == fetchInit(opts, config)
       IN IF ~query.ok
          THEN /\ pc' = [pc EXCEPT ![c] = "rejected"]
               /\ result' = [result EXCEPT ![c] = <<query.err>>]
               /\ UNCHANGED request
          ELSE IF ~init.ok
          THEN /\ pc' = [pc EXCEPT ![c] = "resolved"]
               /\ result' = [result EXCEPT ![c] = <<indexClientError(init.err)>>]
               /\ UNCHANGED request
          ELSE /\ pc' = [pc EXCEPT ![c] = "fetching"]
               /\ request' = [request EXCEPT ![c] =
                                 Append(@, [url |-> requestUrl(baseUrl, path, query.val), init |-> init.val])]
               /\ UNCHANGED result
    /\ UNCHANGED <<instance, fetched, jsonCalls, read>>

\* index.ts: `await fetch(...)` resolves with res (lines 51-88)
IndexFetchResolve(c, res) ==
    /\ pc[c] = "fetching"
    /\ fetched' = [fetched EXCEPT ![c] = Append(@, Ok(res))]
    /\ IF HeadersGetIs(res.headers, "content-type", "application/json")
       THEN /\ pc' = [pc EXCEPT ![c] = "reading"]
            /\ jsonCalls' = [jsonCalls EXCEPT ![c] = @ + 1]
            /\ UNCHANGED result
       ELSE /\ pc' = [pc EXCEPT ![c] = "resolved"]
            /\ result' = [result EXCEPT ![c] = <<indexResponseResult(res.status, EmptyData)>>]
            /\ UNCHANGED jsonCalls
    /\ UNCHANGED <<instance, args, request, read>>

\* index.ts: fetch throws or its promise rejects with err (lines 89-91)
IndexFetchReject(c, err) ==
    /\ pc[c] = "fetching"
    /\ fetched' = [fetched EXCEPT ![c] = Append(@, Throw(err))]
    /\ pc' = [pc EXCEPT ![c] = "resolved"]
    /\ result' = [result EXCEPT ![c] = <<indexClientError(err)>>]
    /\ UNCHANGED <<instance, args, request, jsonCalls, read>>

\* index.ts: `await res.json()` resolves with data (lines 64-88)
IndexJsonResolve(c, data) ==
    /\ pc[c] = "reading"
    /\ read' = [read EXCEPT ![c] = Append(@, Ok(data))]
    /\ pc' = [pc EXCEPT ![c] = "resolved"]
    /\ result' = [result EXCEPT ![c] = <<indexResponseResult(fetched[c][1].val.status, data)>>]
    /\ UNCHANGED <<instance, args, request, fetched, jsonCalls>>

\* index.ts: `await res.json()` rejects with err (lines 64, 89-91)
IndexJsonReject(c, err) ==
    /\ pc[c] = "reading"
    /\ read' = [read EXCEPT ![c] = Append(@, Throw(err))]
    /\ pc' = [pc EXCEPT ![c] = "resolved"]
    /\ result' = [result EXCEPT ![c] = <<indexClientError(err)>>]
    /\ UNCHANGED <<instance, args, request, fetched, jsonCalls>>

NextIndex ==
    \/ At(MainCaller, "idle") /\ \E verb \in Verbs, options \in CallOptions : IndexCall(MainCaller, verb, options)
    \/ At(MainCaller, "fetching") /\ \E res \in Responses : IndexFetchResolve(MainCaller, res)
    \/ At(MainCaller, "fetching") /\ \E err \in TransportErrors : IndexFetchReject(MainCaller, err)
    \/ At(MainCaller, "reading") /\ \E data \in JsonValues : IndexJsonResolve(MainCaller, data)
    \/ At(MainCaller, "reading") /\ \E err \in JsonErrors : IndexJsonReject(MainCaller, err)
    \/ Return(MainCaller)

SpecIndex == InitIndex /\ [][NextIndex]_vars


-----------------------------------------------------------------------------
(* Vocabulary of the properties *)

Known == {200, 201, 400, 401, 404, 500}

\* The result table of the specification: status, name
ResultTable ==
    {<<200, "ok">>, <<201, "created">>, <<400, "bad request">>,
     <<401, "unauthorized">>, <<404, "not found">>, <<500, "server error">>}

\* The eight variants: code, name, fields
Variants ==
    {<<200, "ok", {"code", "name", "data"}>>,
     <<201, "created", {"code", "name", "data"}>>,
     <<400, "bad request", {"code", "name"}>>,
     <<401, "unauthorized", {"code", "name"}>>,
     <<404, "not found", {"code", "name"}>>,
     <<500, "server error", {"code", "name"}>>,
     <<0, "unknown", {"code", "name", "statusCode"}>>,
     <<0 - 1, "client error", {"code", "name", "err"}>>}

Resolved(c) == pc[c] = "resolved"

Rejected(c) == pc[c] = "rejected"

\* fetch resolved with a response for the call of c
Responded(c) == fetched[c] # << >> /\ fetched[c][1].ok

\* fetch threw or rejected for the call of c
TransportFailed(c) == fetched[c] # << >> /\ ~fetched[c][1].ok

\* reading the body threw for the call of c
ReadFailed(c) == read[c] # << >> /\ ~read[c][1].ok

StatusOf(c) == fetched[c][1].val.status

ResultOf(c) == result[c][1]

VerbOf(c) == args[c][1].verb

OptionsOf(c) == args[c][1].options

IsVariant(r) ==
    /\ {"code", "name"} \subseteq DOMAIN r
    /\ <<r.code, r.name, DOMAIN r>> \in Variants

-----------------------------------------------------------------------------
(* Results *)

\* C1: for every verb, when fetch resolves with a status of 200, 201, 400, 401, 404 or 500
\* and reading the body does not throw, the code/name pair of the result is the row of
\* the result table for that status.
C1_StatusTable ==
    \A c \in Callers :
        (Resolved(c) /\ Responded(c) /\ ~ReadFailed(c) /\ StatusOf(c) \in Known) =>
            /\ {"code", "name"} \subseteq DOMAIN ResultOf(c)
            /\ ResultOf(c).code = StatusOf(c)
            /\ <<ResultOf(c).code, ResultOf(c).name>> \in ResultTable

C1_Witness ==
    \E c \in Callers :
        /\ Resolved(c) /\ Responded(c) /\ ~ReadFailed(c)
        /\ VerbOf(c) = "delete" /\ StatusOf(c) = 404
        /\ ResultOf(c).name = "not found"

\* C2: every result a call resolves with is one of the eight variants: data is present
\* iff code is 200 or 201, statusCode iff code is 0, err iff code is -1.
C2_EightVariants ==
    \A c \in Callers :
        Resolved(c) =>
            /\ IsVariant(ResultOf(c))
            /\ Has(ResultOf(c), "data") <=> ResultOf(c).code \in {200, 201}
            /\ Has(ResultOf(c), "statusCode") <=> ResultOf(c).code = 0
            /\ Has(ResultOf(c), "err") <=> ResultOf(c).code = 0 - 1

C2_Witness ==
    \E c \in Callers :
        /\ Resolved(c) /\ Responded(c) /\ StatusOf(c) = 404 /\ read[c] # << >> /\ read[c][1].ok
        /\ DOMAIN ResultOf(c) = {"code", "name"}

\* C3: every call of get, post, put or delete resolves with a result and never rejects,
\* whichever step of the pipeline fails.
C3_NeverRejects == \A c \in Callers : ~Rejected(c)

\* C4: if fetch throws or rejects with v, the call resolves with
\* {code: -1, name: "client error", err: v}, err being v itself.
C4_TransportError ==
    \A c \in Callers :
        TransportFailed(c) =>
            /\ Resolved(c)
            /\ result[c] = <<[code |-> 0 - 1, name |-> "client error", err |-> fetched[c][1].err]>>

C4_Witness ==
    \E c \in Callers :
        /\ TransportFailed(c) /\ Resolved(c) /\ VerbOf(c) = "put"
        /\ ResultOf(c).err = [error |-> "timeout"]

\* C5: for a status outside 200, 201, 400, 401, 404, 500, when the body read does not
\* throw, the result is {code: 0, name: "unknown", statusCode: the status of the response}.
C5_UnknownStatus ==
    \A c \in Callers :
        (Resolved(c) /\ Responded(c) /\ ~ReadFailed(c) /\ StatusOf(c) \notin Known) =>
            result[c] = <<[code |-> 0, name |-> "unknown", statusCode |-> StatusOf(c)]>>

C5_Witness ==
    \E c \in Callers :
        /\ Resolved(c) /\ Responded(c) /\ StatusOf(c) = 503
        /\ read[c] # << >> /\ read[c][1].ok
        /\ ResultOf(c).statusCode = 503


-----------------------------------------------------------------------------
(* Query string and URL *)

\* fetch was invoked for the call of c
Dispatched(c) == request[c] # << >>

UrlOf(c) == request[c][1].url

PathOf(c) == IF Has(OptionsOf(c), "path") THEN OptionsOf(c).path ELSE ""

NonEmptyQuery(options) == Has(options, "query") /\ options.query # << >>

NoQuery(options) == ~Has(options, "query") \/ options.query = << >>

RECURSIVE PairTexts(_)
\* "key=value" for each entry, the value in its string form
PairTexts(entries) ==
    IF entries = << >> THEN << >>
    ELSE <<Head(entries)[1] \o "=" \o TemplateString(Head(entries)[2]).val>> \o PairTexts(Tail(entries))

\* C6: when the per-call query and the default query are both present and non-empty, the
\* query string is "?", the per-call pairs, then the default pairs, joined by "&".
C6_BothQueries ==
    \A c \in Callers :
        (Dispatched(c) /\ NonEmptyQuery(OptionsOf(c)) /\ NonEmptyQuery(defaultOptions)) =>
            UrlOf(c) = baseUrl \o PathOf(c) \o "?"
                       \o Join(PairTexts(OwnEntries(OptionsOf(c).query))
                               \o PairTexts(OwnEntries(defaultOptions.query)), "&")

\* The one query of a call for which exactly one of the two queries is supplied
OneQuery(c) ==
    IF Has(OptionsOf(c), "query") THEN OptionsOf(c).query ELSE defaultOptions.query

ExactlyOneQuery(c) ==
    \/ NonEmptyQuery(OptionsOf(c)) /\ ~Has(defaultOptions, "query")
    \/ ~Has(OptionsOf(c), "query") /\ NonEmptyQuery(defaultOptions)

C8_NoQuery ==
    \A c \in Callers :
        (Dispatched(c) /\ NoQuery(OptionsOf(c)) /\ NoQuery(defaultOptions)) =>
            UrlOf(c) = baseUrl \o PathOf(c)

C8_Witness ==
    \E c \in Callers :
        /\ Dispatched(c) /\ VerbOf(c) = "post"
        /\ Has(OptionsOf(c), "query") /\ OptionsOf(c).query = << >>
        /\ Has(defaultOptions, "query") /\ defaultOptions.query = << >>
        /\ UrlOf(c) = "/foo"

-----------------------------------------------------------------------------
(* The client of index.ts *)

\* C9: index.ts: a call whose per-call query is the empty object dispatches to exactly
\* baseUrl + path, with no "?" appended.
C9_IndexEmptyQuery ==
    \A c \in Callers :
        (Dispatched(c) /\ Has(OptionsOf(c), "query") /\ OptionsOf(c).query = << >>) =>
            UrlOf(c) = baseUrl \o PathOf(c)

\* C10: index.ts: every result carries the code of the result table; a status outside
\* 200, 201, 400, 401, 404, 500 gives code 0 and name "unknown", a thrown transport error
\* gives code -1 and name "client error".
C10_IndexCodes ==
    \A c \in Callers :
        Resolved(c) =>
            /\ {"code", "name"} \subseteq DOMAIN ResultOf(c)
            /\ \E v \in Variants : v[1] = ResultOf(c).code /\ v[2] = ResultOf(c).name
            /\ (Responded(c) /\ ~ReadFailed(c) /\ StatusOf(c) \notin Known) =>
                   (ResultOf(c).code = 0 /\ ResultOf(c).name = "unknown")
            /\ TransportFailed(c) =>
                   (ResultOf(c).code = 0 - 1 /\ ResultOf(c).name = "client error")


-----------------------------------------------------------------------------
(* Request descriptor *)

InitOf(c) == request[c][1].init

\* C11: each of get, post, put, delete dispatches a request descriptor whose method is
\* the lowercase name of the verb called, whatever the options object contains.
C11_MethodStamped ==
    \A c \in Callers :
        Dispatched(c) => (Has(InitOf(c), "method") /\ InitOf(c).method = VerbOf(c))

\* C12: a get or delete call ignores a body supplied in its options: the request
\* descriptor carries no body.
C12_NoBodyOnGetDelete ==
    \A c \in Callers :
        (Dispatched(c) /\ VerbOf(c) \in {"get", "delete"}) => ~Has(InitOf(c), "body")


\* The entries of the default headers followed by the entries of the per-call headers
HeaderList(c) ==
    (IF Has(defaultOptions, "headers") THEN defaultOptions.headers ELSE << >>)
    \o (IF Has(OptionsOf(c), "headers") THEN OptionsOf(c).headers ELSE << >>)

\* C13: the headers of the request are the header collection built from the entries of
\* the default headers followed by the entries of the per-call headers (defaults only:
\* exactly the defaults; per-call only: exactly the per-call headers); when that list is
\* empty the headers field is omitted.
C13_HeaderMerge ==
    \A c \in Callers :
        Dispatched(c) =>
            /\ HeaderList(c) = << >> <=> ~Has(InitOf(c), "headers")
            /\ Has(InitOf(c), "headers") =>
                   /\ InitOf(c).headers = NewHeaders(HeaderList(c))
                   /\ InitOf(c).headers # << >>
                   /\ ~Has(OptionsOf(c), "headers") => InitOf(c).headers = defaultOptions.headers
                   /\ ~Has(defaultOptions, "headers") => InitOf(c).headers = OptionsOf(c).headers

C13_Witness ==
    \E c \in Callers :
        /\ Dispatched(c)
        /\ Has(defaultOptions, "headers") /\ Has(OptionsOf(c), "headers")
        /\ InitOf(c).headers =
               <<<<"content-type", "application/json, text/plain">>, <<"x-token", "abc">>>>

\* C14: the credentials of the request are the per-call credentials when supplied, else
\* the default credentials when given, else the field is omitted.
C14_Credentials ==
    \A c \in Callers :
        Dispatched(c) =>
            IF Has(OptionsOf(c), "credentials")
            THEN Has(InitOf(c), "credentials") /\ InitOf(c).credentials = OptionsOf(c).credentials
            ELSE IF Has(defaultOptions, "credentials")
            THEN Has(InitOf(c), "credentials") /\ InitOf(c).credentials = defaultOptions.credentials
            ELSE ~Has(InitOf(c), "credentials")

C14_Witness ==
    \E c \in Callers :
        /\ Dispatched(c)
        /\ Has(OptionsOf(c), "credentials") /\ Has(defaultOptions, "credentials")
        /\ defaultOptions.credentials = "include"
        /\ InitOf(c).credentials = "omit"


\* The query string #createQueryString returns for the call of c
QueryStringOf(c) == createQueryString(OptionsOf(c), defaultOptions).val

\* C15: the URL handed to fetch is baseUrl, then options.path when present (else ""),
\* then the query string, with nothing added or removed; with no path and no query it is
\* exactly baseUrl, and baseUrl may be empty.
C15_UrlAssembly ==
    \A c \in Callers :
        Dispatched(c) =>
            /\ UrlOf(c) = baseUrl \o PathOf(c) \o QueryStringOf(c)
            /\ (~Has(OptionsOf(c), "path") /\ ~Has(OptionsOf(c), "query")
                    /\ ~Has(defaultOptions, "query")) => UrlOf(c) = baseUrl

C15_Witness ==
    \E c \in Callers :
        /\ Dispatched(c) /\ baseUrl = ""
        /\ Has(OptionsOf(c), "path") /\ Has(OptionsOf(c), "query")
        /\ UrlOf(c) = "/bar?bar=baz&pokemon=pikachu"

-----------------------------------------------------------------------------
(* Body read *)

ResponseOf(c) == fetched[c][1].val

\* The Content-Type header of the response is exactly "application/json"
ExactJson(c) == ResponseOf(c).headers = <<<<"content-type", "application/json">>>>

\* C16: json() is invoked only on a response whose Content-Type is exactly
\* "application/json"; for a 200 or 201 response data is the value json() returned in
\* that case and the empty object when json() was not invoked.
C16_JsonGate ==
    \A c \in Callers :
        /\ jsonCalls[c] > 0 => (Responded(c) /\ ExactJson(c))
        /\ (Responded(c) /\ ExactJson(c)) => jsonCalls[c] = 1
        /\ (Resolved(c) /\ Responded(c) /\ ~ReadFailed(c) /\ StatusOf(c) \in {200, 201}) =>
               /\ Has(ResultOf(c), "data")
               /\ ResultOf(c).data = IF ExactJson(c) THEN read[c][1].val ELSE [json |-> "{}"]

C16_Witness ==
    \E c \in Callers :
        /\ Resolved(c) /\ Responded(c) /\ StatusOf(c) = 201
        /\ ResponseOf(c).headers = <<<<"content-type", "application/json; charset=utf-8">>>>
        /\ jsonCalls[c] = 0
        /\ ResultOf(c).data = [json |-> "{}"]

\* C17: for post and put the body of the request descriptor is JSON.stringify(options.body),
\* for every supplied body.
C17_BodySerialized ==
    \A c \in Callers :
        (Dispatched(c) /\ VerbOf(c) \in {"post", "put"} /\ Has(OptionsOf(c), "body")) =>
            /\ Has(InitOf(c), "body")
            /\ InitOf(c).body = JSONStringify(OptionsOf(c).body).val

C17_Witness ==
    \E c \in Callers :
        /\ Dispatched(c) /\ VerbOf(c) = "put"
        /\ Has(OptionsOf(c), "body") /\ OptionsOf(c).body = BObject
        /\ InitOf(c).body = "{\"bar\":\"baz\"}"


\* C18: the body is read before the status is classified: for every status, if the
\* Content-Type is exactly "application/json" and json() throws or rejects with v, the
\* call resolves with {code: -1, name: "client error", err: v}.
C18_ReadFailure ==
    \A c \in Callers :
        ReadFailed(c) =>
            /\ Responded(c) /\ ExactJson(c)
            /\ Resolved(c)
            /\ result[c] = <<[code |-> 0 - 1, name |-> "client error", err |-> read[c][1].err]>>

C18_Witness ==
    \E c \in Callers :
        /\ ReadFailed(c) /\ Resolved(c) /\ StatusOf(c) = 200
        /\ ResultOf(c).name = "client error"
        /\ ResultOf(c).err = [error |-> "SyntaxError: Unexpected token"]

-----------------------------------------------------------------------------
(* One round trip per call *)

QueryOrNone(options) == IF Has(options, "query") THEN options.query ELSE << >>

\* The call of c threw before fetch could be invoked: in the query encoding or in the
\* serialization of the body
ThrewBeforeFetch(c) ==
    \/ \E i \in 1..Len(QueryOrNone(OptionsOf(c))) : QueryOrNone(OptionsOf(c))[i][2].t = "symbol"
    \/ \E i \in 1..Len(QueryOrNone(defaultOptions)) : QueryOrNone(defaultOptions)[i][2].t = "symbol"
    \/ Has(OptionsOf(c), "body") /\ \E i \in 1..Len(OptionsOf(c).body) : OptionsOf(c).body[i][2].t = "circular"

Settled(c) == pc[c] \in {"resolved", "rejected"}

\* C19: a call invokes fetch at most once, and exactly once when nothing throws before the
\* invocation; after a transport failure, a body-read failure or any status fetch is not
\* invoked again, and the call settles with exactly one result.
C19_OneFetch ==
    \A c \in Callers :
        /\ Len(request[c]) <= 1
        /\ Len(fetched[c]) <= Len(request[c])
        /\ (pc[c] # "idle" /\ ~ThrewBeforeFetch(c)) => Len(request[c]) = 1
        /\ (pc[c] # "idle" /\ ThrewBeforeFetch(c)) => Len(request[c]) = 0
        /\ Len(result[c]) <= 1
        /\ ~Settled(c) => result[c] = << >>
        /\ (TransportFailed(c) \/ ReadFailed(c) \/ (Responded(c) /\ pc[c] # "reading")) =>
               (Resolved(c) /\ Len(result[c]) = 1)

C19_Witness ==
    \E c \in Callers :
        /\ Resolved(c) /\ TransportFailed(c)
        /\ Len(request[c]) = 1 /\ Len(result[c]) = 1

\* fetch invoked and not yet settled; json() invoked and not yet settled
FetchOutstanding(c) == Len(request[c]) - Len(fetched[c])

ReadOutstanding(c) == jsonCalls[c] - Len(read[c])

\* C20: within one call json() starts only after fetch has resolved with a response, the
\* result is produced only after the body read, when there is one, has settled, and the
\* two awaits are never outstanding at the same time.
C20_AwaitsInSequence ==
    \A c \in Callers :
        /\ jsonCalls[c] > 0 => (Responded(c) /\ FetchOutstanding(c) = 0)
        /\ Settled(c) => (FetchOutstanding(c) = 0 /\ ReadOutstanding(c) = 0)
        /\ ~(FetchOutstanding(c) > 0 /\ ReadOutstanding(c) > 0)
        /\ FetchOutstanding(c) \in {0, 1} /\ ReadOutstanding(c) \in {0, 1}
        /\ pc[c] = "fetching" <=> FetchOutstanding(c) = 1
        /\ pc[c] = "reading" <=> ReadOutstanding(c) = 1

C20_Witness ==
    \E c \in Callers :
        /\ Resolved(c) /\ Responded(c) /\ jsonCalls[c] = 1
        /\ read[c] # << >> /\ read[c][1].ok
        /\ Has(ResultOf(c), "data") /\ ResultOf(c).data = read[c][1].val


-----------------------------------------------------------------------------
(* Several calls in flight on one instance *)

FullOptions ==
    [path |-> "/bar", query |-> QCall, headers |-> HCall, credentials |-> "omit", body |-> BObject]

FullDefaults == [query |-> QDefault, headers |-> HDefault, credentials |-> "include"]

\* The options of the concurrent calls: none, a path and a query, a body with headers and
\* credentials, and a query that cannot be encoded
ConcOptions ==
    {Restrict(FullOptions, D) : D \in {{}, {"path", "query"}, {"headers", "credentials", "body"}}}
    \cup {[query |-> QSymbol]}

ConcVerbs == {"get", "post"}

ConcDefaults == {Restrict(FullDefaults, D) : D \in {{}, {"query", "headers", "credentials"}}}

ConcResponses ==
    [status : {200, 404, 418}, headers : {<< >>, <<<<"content-type", "application/json">>>>}]

InitConc ==
    /\ baseUrl = "/foo"
    /\ defaultOptions \in ConcDefaults
    /\ pc = [c \in Callers |-> "idle"]
    /\ args = Idle
    /\ request = Idle
    /\ fetched = Idle
    /\ jsonCalls = [c \in Callers |-> 0]
    /\ read = Idle
    /\ result = Idle

\* The transport settles the invocation of the call of c
FetchSettles(c) ==
    \/ At(c, "fetching") /\ \E res \in ConcResponses : FetchResolve(c, res)
    \/ At(c, "fetching") /\ \E err \in TransportErrors : FetchReject(c, err)

\* The body read of the call of c settles
ReadSettles(c) ==
    \/ At(c, "reading") /\ \E data \in JsonValues : JsonResolve(c, data)
    \/ At(c, "reading") /\ \E err \in JsonErrors : JsonReject(c, err)

\* Every caller may call at any time; the completions interleave freely
NextConc ==
    \/ \E c \in Callers : At(c, "idle") /\ \E verb \in ConcVerbs, options \in ConcOptions : Call(c, verb, options)
    \/ \E c \in Callers : FetchSettles(c)
    \/ \E c \in Callers : ReadSettles(c)
    \/ \E c \in Callers : Return(c)

SpecConc == InitConc /\ [][NextConc]_vars

\* The transport and the body read are assumed to settle eventually
SpecConcLive ==
    /\ SpecConc
    /\ \A c \in Callers : WF_vars(FetchSettles(c)) /\ WF_vars(ReadSettles(c))


-----------------------------------------------------------------------------
(* C21 *)

\* The request the options of the call of c and the instance determine
OwnRequest(c) ==
    LET opts == SpreadOptions(VerbOf(c), OptionsOf(c))
        query == createQueryString(opts, defaultOptions)
        init == fetchInit(opts, applyOptions(opts, defaultOptions))
    IN [url |-> requestUrl(baseUrl, resolvePath(opts), query.val), init |-> init.val]

\* The result the answers given to the call of c determine
OwnResult(c) ==
    IF TransportFailed(c) THEN clientError(fetched[c][1].err)
    ELSE IF ReadFailed(c) THEN clientError(read[c][1].err)
    ELSE IF read[c] # << >> THEN responseResult(StatusOf(c), read[c][1].val)
    ELSE responseResult(StatusOf(c), EmptyData)

\* What the program holds of the call of c
CallState(c) == <<pc[c], args[c], request[c], fetched[c], jsonCalls[c], read[c], result[c]>>

\* A step is a step of one call
OneCallSteps == \E c \in Callers : \A d \in Callers \ {c} : CallState(d)' = CallState(d)

\* Every dispatched call holds its own request and, once resolved, its own result
OwnRequestAndResult ==
    \A c \in Callers :
        Dispatched(c) =>
            /\ request[c] = <<OwnRequest(c)>>
            /\ Resolved(c) => result[c] = <<OwnResult(c)>>

\* C21: when several calls are in flight on one instance, under every interleaving of
\* their transport and body-read completions the URL and descriptor of each call are the
\* ones its own options determine, its result is the one its own response determines, and
\* no step of one call changes anything of another call.
C21_Independent == []OwnRequestAndResult /\ [][OneCallSteps]_vars

\* One call is still reading its body while another one, with other options and another
\* status, has resolved after reading its body
C21_Witness ==
    /\ pc["c1"] = "reading"
    /\ Resolved("c2") /\ read["c2"] # << >> /\ read["c2"][1].ok
    /\ StatusOf("c1") # StatusOf("c2")
    /\ UrlOf("c1") # UrlOf("c2")
    /\ InitOf("c1") # InitOf("c2")
    /\ result["c1"] = << >>
    /\ ResultOf("c2") = OwnResult("c2")


-----------------------------------------------------------------------------
(* C22 *)

\* A call that is not under way holds nothing
HoldsNothing(c) == CallState(c) = <<"idle", << >>, << >>, << >>, 0, << >>, << >>>>

\* No step changes the base URL or the default options, and a step that ends a call leaves
\* nothing of it behind
InstanceKept ==
    /\ baseUrl' = baseUrl
    /\ defaultOptions' = defaultOptions
    /\ \A c \in Callers : pc'[c] = "idle" => HoldsNothing(c)'

\* C22: after construction no sequence of get, post, put and delete calls, whatever their
\* outcome, changes the base URL or the default options (headers, query, credentials) of
\* the instance, and nothing else is kept from one call to the next.
C22_InstanceUnchanged == [][InstanceKept]_vars

\* A post with its own query, headers and credentials has resolved with a client error on
\* an instance that has default headers, a default query and default credentials
C22_Witness ==
    /\ Resolved(MainCaller) /\ ResultOf(MainCaller).code = -1
    /\ TransportFailed(MainCaller)
    /\ VerbOf(MainCaller) = "post"
    /\ {"query", "headers", "credentials"} \subseteq DOMAIN OptionsOf(MainCaller)
    /\ DOMAIN defaultOptions = {"query", "headers", "credentials"}
    /\ baseUrl = "/foo"


-----------------------------------------------------------------------------
(* C23 *)

\* The transport gave the calls of c and d the same answers
SameAnswers(c, d) == fetched[c] = fetched[d] /\ read[c] = read[d]

\* The calls of c and d are the same call: same verb, same options
SameCall(c, d) == args[c] # << >> /\ args[c] = args[d]

\* C23: two calls through the same instance with identical options dispatch the same URL
\* and request descriptor and, when the transport answers them identically, settle the
\* same way with identical results, whatever calls were made before or in between.
C23_Deterministic ==
    \A c, d \in Callers :
        SameCall(c, d) =>
            /\ request[c] = request[d]
            /\ (Settled(c) /\ Settled(d) /\ SameAnswers(c, d)) =>
                   (pc[c] = pc[d] /\ result[c] = result[d])

\* Two posts with the same body, headers and credentials were both answered 404 with the
\* same JSON body, and both have resolved with the same result
C23_Witness ==
    /\ SameCall("c1", "c2") /\ VerbOf("c1") = "post" /\ Has(OptionsOf("c1"), "body")
    /\ Resolved("c1") /\ Resolved("c2")
    /\ SameAnswers("c1", "c2")
    /\ Responded("c1") /\ StatusOf("c1") = 404 /\ read["c1"] # << >> /\ read["c1"][1].ok
    /\ UrlOf("c1") = UrlOf("c2") /\ InitOf("c1") = InitOf("c2")
    /\ ResultOf("c1") = ResultOf("c2") /\ ResultOf("c1").name = "not found"


-----------------------------------------------------------------------------
(* C24 *)

\* The call of c is waiting for the transport or for the body read
InFlight(c) == pc[c] \in {"fetching", "reading"}

\* A call whose transport invocation or body read has not settled has no result: it waits
\* for that answer and for nothing else
WaitsForAnswer ==
    \A c \in Callers :
        /\ (Dispatched(c) /\ FetchOutstanding(c) > 0) => (pc[c] = "fetching" /\ result[c] = << >>)
        /\ ReadOutstanding(c) > 0 => (pc[c] = "reading" /\ result[c] = << >>)
        /\ InFlight(c) => FetchOutstanding(c) + ReadOutstanding(c) = 1

\* C24: provided the transport invocation and the body read, when there is one, eventually
\* settle, every call that reached the transport eventually resolves with a result; the
\* client waits for nothing else, and a call whose transport has not settled has not
\* resolved.
C24_Terminates ==
    /\ []WaitsForAnswer
    /\ \A c \in Callers : InFlight(c) ~> (Resolved(c) /\ Len(result[c]) = 1)

\* One call has resolved with a result once its transport invocation and its body read
\* had settled, while the other, whose transport has not settled, is still waiting
C24_Witness ==
    /\ Resolved("c1") /\ Len(result["c1"]) = 1
    /\ Responded("c1") /\ read["c1"] # << >>
    /\ FetchOutstanding("c1") = 0 /\ ReadOutstanding("c1") = 0
    /\ pc["c2"] = "fetching" /\ FetchOutstanding("c2") = 1 /\ result["c2"] = << >>


====
